---- MODULE Spec2Model ----
(***************************************************************************)
(* A model of the Logger class of nuncio-bitis/Logger (Logger.h,           *)
(* Logger.cpp).  All data members of the class are static, so the state of *)
(* the program is one set of variables shared by every Logger object.      *)
(* File names, log lines and the directory scan are computed on real       *)
(* strings, so that sizes and name matches are those of the code.  A file  *)
(* is kept as its length, which is all the code reads of it; what a call   *)
(* wrote, and where, is kept for the last call (ev).                       *)
(***************************************************************************)
EXTENDS Integers, Sequences, FiniteSets, TLC

(***************************************************************************)
(* Program constants.                                                      *)
(***************************************************************************)
eLOG_CRIT == 2
eLOG_HIGH == 3
eLOG_MED == 4
eLOG_LOW == 5
eLOG_INFO == 6
eLOG_DEBUG == 7
eLOG_LAST == 7
eLOG_DEFAULT == 4
DEFAULT_MAX_FILE_SIZE == 2097152
DEFAULT_MAX_FILE_NUMBER == 128
\* std::string("_yyyy-MM-dd").size() and std::string("_HHmmss").size()
ScanDateLen == 11
ScanTimeLen == 7
\* (std::size_t)-1, what Size() returns for a file that cannot be opened: tellg()
\* fails with -1.  It stands for 2^64 - 1 and is the largest 32-bit integer;
\* every file size limit of the model is below it.
NoFileSize == 2147483647

(***************************************************************************)
(* Bounds of the model.                                                    *)
(***************************************************************************)
\* the clock runs over the seconds 0..MaxClock
MaxClock == 2
\* number of Logger objects constructed in one run
MaxLoggers == 2
\* number of writeLog-producing calls in one run
MaxWrites == 2
\* number of lines the line buffer holds when a run of SpecDrain starts
MaxBuffered == 2
\* number of threads that call the logger at the same time
MaxThreads == 2

(***************************************************************************)
(* The environment: one existing directory, the working directory, which   *)
(* may hold two files left by an earlier run whose names the directory     *)
(* scan accepts for the base name ScanStem.                                *)
(***************************************************************************)
WorkDir == "/w"
Dirs == {WorkDir}
\* a directory that can be entered but not listed (search permission only)
Unlistable == {"/u"}
ScanStem == "eighteen_chars_log"
OldEntry == "aaaaaaaaaaaaaaaaaa" \o ScanStem
NewEntry == "bbbbbbbbbbbbbbbbbb" \o ScanStem
\* creation times of the two earlier files (the run starts at second 0)
OldBorn == 0 - 2
NewBorn == 0 - 1
\* the earlier files hold one short line each
OldFile == [born |-> OldBorn, size |-> Len("old run\n")]
NewFile == [born |-> NewBorn, size |-> Len("newer run\n")]
Prior == (WorkDir \o "/" \o OldEntry :> OldFile) @@ (WorkDir \o "/" \o NewEntry :> NewFile)

\* inputs of the operations
BaseNames == {"log", ScanStem, "/x/log"}
\* base names given to SetBaseName where the scan itself is examined
ScanNames == BaseNames \cup {"/u/log"}
Msgs == {"x"}
LogSevs == {eLOG_CRIT, eLOG_DEFAULT}
SetSevs == {eLOG_CRIT - 1, eLOG_CRIT, eLOG_LAST + 1}
CtorSevs == {eLOG_DEFAULT}
FileSizes == {100}
FileNumbers == {2}

VARIABLES
    now,            \* wall clock, in seconds
    cwd,            \* working directory of the process
    disk,           \* absolute path -> [born, size]: the regular files and their lengths
    alive,          \* the Logger objects that are constructed and not destroyed
    made,           \* number of Logger objects constructed so far
    s_pInstance,    \* Logger::s_pInstance (0 is nullptr)
    m_logFile,      \* Logger::m_logFile: the pointer and the stream it points to
    leaked,         \* streams that are still open and that no pointer refers to
    m_logFileName,
    mFileNameBase,
    m_leastSeverity,
    mMaxFileSize,
    mMaxFileNumber,
    mBuffering,
    mLogFileList,
    mBufferList,
    mUsingStdOut,
    crashed,        \* the process was ended by a use of a released stream
    nwrites,        \* number of writeLog calls made so far
    ev,             \* what the last operation was and did
    pc,             \* thread -> where the thread is in the call it makes
    call,           \* thread -> the call it makes
    m_mutex         \* Logger::m_mutex: the thread that owns it, 0 if none does

vars == <<now, cwd, disk, alive, made, s_pInstance, m_logFile,
          leaked, m_logFileName, mFileNameBase, m_leastSeverity, mMaxFileSize,
          mMaxFileNumber, mBuffering, mLogFileList, mBufferList, mUsingStdOut,
          crashed, nwrites, ev, pc, call, m_mutex>>

\* the variables of the threads
thr == <<pc, call, m_mutex>>

Threads == 1..MaxThreads

\* a thread that makes no call
NoCall == [op |-> "", sev |-> 0, text |-> "", on |-> FALSE, size |-> 0]

(***************************************************************************)
(* Strings and paths.                                                      *)
(***************************************************************************)
\* std::string::find_last_of('/') + 1: the position of the last '/', 0 if none
LastSlash(s) ==
    LET hits == {i \in 1..Len(s) : SubSeq(s, i, i) = "/"}
    IN  IF hits = {} THEN 0 ELSE CHOOSE i \in hits : \A j \in hits : j <= i

\* how the system resolves a path given to open, unlink or opendir
Resolve(dir, p) == IF Len(p) > 0 /\ SubSeq(p, 1, 1) = "/" THEN p ELSE dir \o "/" \o p

DirOf(abs) == SubSeq(abs, 1, LastSlash(abs) - 1)
EntryOf(abs) == SubSeq(abs, LastSlash(abs) + 1, Len(abs))

RECURSIVE SumLen(_)
SumLen(chunks) == IF chunks = <<>> THEN 0 ELSE Len(Head(chunks)) + SumLen(Tail(chunks))

(***************************************************************************)
(* Time stamps: strftime of the clock.  The run lies within the first      *)
(* seconds of one day; the millisecond part is not modelled and reads 000. *)
(***************************************************************************)
GetDateStr(useSep) == IF useSep THEN "2026-11-03" ELSE "20261103"

GetTimeStr(t, useSep, useMsec) ==
    (IF useSep THEN "00:00:0" ELSE "00000") \o ToString(t) \o (IF useMsec THEN ".000" ELSE "")

TimeStamp(t) == GetDateStr(TRUE) \o " " \o GetTimeStr(t, TRUE, TRUE)

(***************************************************************************)
(* Severities.                                                             *)
(***************************************************************************)
s_severityString ==
    (eLOG_CRIT :> "CRIT_") @@ (eLOG_HIGH :> "HIGH_") @@ (eLOG_MED :> "MED__") @@
    (eLOG_LOW :> "LOW__") @@ (eLOG_INFO :> "INFO_") @@ (eLOG_DEBUG :> "DEBUG")

\* s_severityString[s]: std::map::operator[] gives an empty string for a key the
\* map does not hold
SevName(s) == IF s \in DOMAIN s_severityString THEN s_severityString[s] ELSE ""

\* a range test that forgets the lower end; C2 tells it from the one of the code
ValidSeverity_NoLowerEnd(s) == ~(s > eLOG_LAST)

\* the range test of setSeverity
ValidSeverity(s) == ~((s < eLOG_CRIT) \/ (s > eLOG_LAST))

\* std::setw(4) pads to at least 4 characters; every tag has 5
severityToString(s) == IF (s >= eLOG_CRIT) /\ (s <= eLOG_LAST) THEN SevName(s) ELSE ""

\* a filter that drops the lines at the threshold itself; C1 tells it from the
\* one of the code
isDisplayed_Strict(s, least) == s < least

\* Logger::isDisplayed and the test of Logger::log
isDisplayed(s, least) == s <= least

Dashes == "--------------------------------------------------------------------------------\n"

LogLine(t, s, input) == TimeStamp(t) \o " [" \o severityToString(s) \o "] " \o input \o "\n"

StartBanner(t, name, least) ==
    Dashes \o "START: " \o TimeStamp(t) \o "\n" \o " filename = " \o name \o "\n"
    \o " severity = " \o severityToString(least) \o "\n" \o Dashes

FinishBanner(t) == Dashes \o "FINISH: " \o TimeStamp(t) \o "\n" \o Dashes

InvalidLine(t, s) == TimeStamp(t) \o " ERROR: Invalid verbosity specified, " \o ToString(s) \o "\n"

SetLine(t, s) == TimeStamp(t) \o " Set severity level to " \o SevName(s) \o "\n"

(***************************************************************************)
(* The file system and the output stream.  A stream is [st, path, linked]: *)
(* st is "null" (the pointer is nullptr), "open", "failed" (the stream     *)
(* object exists but its open failed) or "freed" (the object was deleted   *)
(* and the pointer still refers to it); linked says whether the file the   *)
(* open stream writes to is still the one its path names; pending is what  *)
(* was given to the stream and not yet flushed to the file.                *)
(***************************************************************************)
NullStream == [st |-> "null", path |-> "", linked |-> FALSE, pending |-> <<>>]

\* The outcomes of using a released stream object: the process is ended, or it
\* goes on and the object reads as a closed stream.  While the pointer does not
\* refer to a released object there is nothing to choose.
UBOutcomes == IF m_logFile.st = "freed" THEN {"crash", "closed"} ELSE {"closed"}

\* The handlers run on a record of the state they change, together with a
\* trace of what the call did.
Cur ==
    [cwd |-> cwd, disk |-> disk, m_logFile |-> m_logFile,
     leaked |-> leaked, m_logFileName |-> m_logFileName, mFileNameBase |-> mFileNameBase,
     mLogFileList |-> mLogFileList, mBufferList |-> mBufferList,
     mUsingStdOut |-> mUsingStdOut, crashed |-> crashed, nwrites |-> nwrites,
     wrote |-> <<>>, consoled |-> <<>>, filed |-> <<>>, passes |-> 0, rotated |-> <<>>, evicted |-> <<>>,
     cerr |-> <<>>, ub |-> FALSE, ret |-> TRUE]

\* a use of the stream object m_logFile points to, after it was deleted
UseFreed(st, u) == [st EXCEPT !.ub = TRUE, !.crashed = (u = "crash")]

\* Logger::Size(): the length of the file named m_logFileName, (size_t)-1 if
\* it cannot be opened
Size(st) ==
    LET abs == Resolve(st.cwd, st.m_logFileName)
    IN  IF abs \in DOMAIN st.disk THEN st.disk[abs].size ELSE NoFileSize

\* new std::ofstream(name, app | out): opens, creating the file if its directory
\* exists
NewStream(st, name) ==
    LET abs == Resolve(st.cwd, name)
    IN  IF abs \in DOMAIN st.disk
        THEN [st EXCEPT !.m_logFile = [NullStream EXCEPT !.st = "open", !.path = abs,
                                                         !.linked = TRUE]]
        ELSE IF DirOf(abs) \in Dirs
        THEN [st EXCEPT !.m_logFile = [NullStream EXCEPT !.st = "open", !.path = abs,
                                                         !.linked = TRUE],
                        !.disk = (abs :> [born |-> now, size |-> 0]) @@ @]
        ELSE [st EXCEPT !.m_logFile = [NullStream EXCEPT !.st = "failed", !.path = abs]]

\* *m_logFile << ss.str(), on an open stream: the text is in the stream
StreamWrite(st, chunk) == [st EXCEPT !.m_logFile.pending = Append(@, chunk)]

\* m_logFile->flush(), on an open stream: what the stream holds reaches its file
StreamFlush(st) ==
    LET f == st.m_logFile
        s1 == [st EXCEPT !.m_logFile.pending = <<>>,
                         !.filed = @ \o [i \in 1..Len(f.pending) |->
                                            [path |-> f.path, chunk |-> f.pending[i]]]]
    IN  IF f.st # "open" THEN st
        ELSE IF f.linked THEN [s1 EXCEPT !.disk[f.path].size = @ + SumLen(f.pending)]
        ELSE s1

\* unlink(name): removes the name; a stream that has the file open keeps writing
\* to a file no name refers to
Unlink(st, name) ==
    LET abs == Resolve(st.cwd, name)
    IN  IF abs \notin DOMAIN st.disk THEN st
        ELSE [st EXCEPT !.disk = [p \in DOMAIN @ \ {abs} |-> @[p]],
                        !.m_logFile.linked = @ /\ ~(st.m_logFile.st = "open" /\ st.m_logFile.path = abs)]

(***************************************************************************)
(* Rotation and eviction.                                                  *)
(***************************************************************************)
\* Logger::AddNewFileName
AddNewFileName(st) ==
    LET name == st.mFileNameBase \o "_" \o GetDateStr(FALSE) \o "_"
                \o GetTimeStr(now, FALSE, FALSE) \o ".log"
    IN  [st EXCEPT !.mLogFileList = Append(@, name), !.m_logFileName = name]

\* the size test of EnforceLogFileLimits
FileIsFull(size, maxSize) == size >= maxSize

\* the first half of EnforceLogFileLimits: close the full file, open a new one
RotateIfFull(st, u) ==
    IF st.m_logFile.st # "null" /\ FileIsFull(Size(st), mMaxFileSize)
    THEN LET s0 == IF st.m_logFile.st = "freed" THEN UseFreed(st, u) ELSE StreamFlush(st)
             s1 == AddNewFileName([s0 EXCEPT !.m_logFile = NullStream])
             s2 == NewStream(s1, s1.m_logFileName)
         IN  IF s0.crashed THEN s0
             ELSE [s2 EXCEPT !.rotated = Append(@, [from |-> st.m_logFileName,
                                                    to |-> s1.m_logFileName,
                                                    created |-> DOMAIN s2.disk \ DOMAIN st.disk])]
    ELSE st

\* the born times of the files a list of names refers to (NoFileSize: no file)
BornOf(st, names) ==
    [i \in 1..Len(names) |->
        LET abs == Resolve(st.cwd, names[i])
        IN  IF abs \in DOMAIN st.disk THEN st.disk[abs].born ELSE NoFileSize]

\* one turn of the while loop of EnforceLogFileLimits
EvictOne(st) ==
    LET s1 == Unlink(st, st.mLogFileList[1])
    IN  [s1 EXCEPT !.mLogFileList = Tail(@),
                   !.evicted = Append(@, [name |-> st.mLogFileList[1],
                                          before |-> st.mLogFileList,
                                          born |-> BornOf(st, st.mLogFileList),
                                          unlinked |-> DOMAIN st.disk \ DOMAIN s1.disk])]

\* the test of the while loop of EnforceLogFileLimits
TooManyFiles(n, maxNumber) == n > maxNumber

\* an enforcement that removes one file at most; C5 tells it from the loop
EvictLoop_Once(st) ==
    IF TooManyFiles(Len(st.mLogFileList), mMaxFileNumber) THEN EvictOne(st) ELSE st

RECURSIVE EvictLoop(_)
EvictLoop(st) ==
    IF TooManyFiles(Len(st.mLogFileList), mMaxFileNumber) THEN EvictLoop(EvictOne(st)) ELSE st

\* Logger::EnforceLogFileLimits
EnforceLogFileLimits(st, u) ==
    LET s1 == RotateIfFull(st, u)
    IN  IF s1.crashed THEN s1 ELSE [EvictLoop(s1) EXCEPT !.passes = @ + 1]

\* a write path that leaves the line in the stream's buffer (no flush); C10
\* tells it from the one of the code
writeLog_NoFlush(st, ss, u) ==
    IF st.crashed THEN st
    ELSE LET s1 == IF st.mUsingStdOut THEN [st EXCEPT !.consoled = Append(@, ss)] ELSE st
             s2 == CASE s1.m_logFile.st = "freed" -> UseFreed(s1, u)
                    [] s1.m_logFile.st = "open" -> StreamWrite(s1, ss)
                    [] OTHER -> s1
             s3 == [s2 EXCEPT !.wrote = Append(@, ss), !.nwrites = @ + 1]
         IN  IF s3.crashed THEN s3 ELSE EnforceLogFileLimits(s3, u)

\* Logger::writeLog
writeLog(st, ss, u) ==
    IF st.crashed THEN st
    ELSE LET s1 == IF st.mUsingStdOut THEN [st EXCEPT !.consoled = Append(@, ss)] ELSE st
             s2 == CASE s1.m_logFile.st = "freed" -> UseFreed(s1, u)
                    [] s1.m_logFile.st = "open" -> StreamFlush(StreamWrite(s1, ss))
                    [] OTHER -> s1
             s3 == [s2 EXCEPT !.wrote = Append(@, ss), !.nwrites = @ + 1]
         IN  IF s3.crashed THEN s3 ELSE EnforceLogFileLimits(s3, u)

(***************************************************************************)
(* The directory scan and the choice of the first file.                    *)
(***************************************************************************)
\* The files of a directory in the order readdir returns them.  The order is the
\* file system's: each scan gets them oldest first or newest first (rev).
RECURSIVE ReadDir(_, _, _)
ReadDir(files, d, rev) ==
    IF files = {} THEN <<>>
    ELSE LET f == CHOOSE x \in files : \A y \in files :
                      IF rev THEN d[y].born <= d[x].born ELSE d[x].born <= d[y].born
         IN  <<EntryOf(f)>> \o ReadDir(files \ {f}, d, rev)

\* the test MakeFileList applies to a directory entry
ScanMatch(entry, filenamebase, nameLength) ==
    (Len(entry) = nameLength)
    /\ (SubSeq(entry, Len(filenamebase) + 1, Len(entry)) = filenamebase)

\* what perror("") prints when opendir fails on a missing directory
ScanError == "No such file or directory\n"
\* and on a directory without read permission
ScanDenied == "Permission denied\n"

\* Logger::MakeFileList.  idx is find_last_of('/'), -1 if there is none.
MakeFileList(st, rev) ==
    IF st.mFileNameBase = "" THEN [st EXCEPT !.ret = FALSE]
    ELSE LET base == st.mFileNameBase
             workingDir == st.cwd
             idx == LastSlash(base) - 1
             logDir == IF idx >= 0
                       THEN IF SubSeq(base, 1, 1) = "/"
                            THEN SubSeq(base, 1, idx)
                            ELSE workingDir \o SubSeq(base, 1, idx)
                       ELSE workingDir
             filenamebase == SubSeq(base, idx + 2, Len(base))
             nameLength == Len(filenamebase) + ScanDateLen + ScanTimeLen
             entries == ReadDir({f \in DOMAIN st.disk : DirOf(f) = logDir}, st.disk, rev)
             found == SelectSeq(entries, LAMBDA e : ScanMatch(e, filenamebase, nameLength))
         IN  IF logDir \in Dirs
             THEN [st EXCEPT !.mLogFileList = [i \in 1..Len(found) |-> logDir \o "/" \o found[i]],
                             !.cwd = workingDir, !.ret = TRUE]
             \* opendir failed: return EXIT_FAILURE, which is 1 and converts to true.
             \* The chdir before it failed too if the directory is missing, and
             \* succeeded if it can be entered; this path does not chdir back.
             ELSE [st EXCEPT !.mLogFileList = <<>>, !.ret = TRUE,
                             !.cwd = IF logDir \in Unlistable THEN logDir ELSE workingDir,
                             !.cerr = Append(@, IF logDir \in Unlistable THEN ScanDenied
                                                ELSE ScanError)]

\* Logger::GenerateFileName
GenerateFileName(st) ==
    IF st.mFileNameBase = "" THEN [st EXCEPT !.ret = FALSE]
    ELSE IF st.mLogFileList = <<>> THEN [AddNewFileName(st) EXCEPT !.ret = TRUE]
    ELSE [st EXCEPT !.m_logFileName = st.mLogFileList[Len(st.mLogFileList)], !.ret = TRUE]

\* Logger::Open.  The new stream replaces the pointer; a stream the pointer
\* referred to stays open and is lost.
Open(st) ==
    IF st.m_logFileName = "" THEN [st EXCEPT !.ret = FALSE]
    ELSE LET name == IF LastSlash(st.m_logFileName) - 1 < 0
                     THEN st.cwd \o "/" \o st.m_logFileName
                     ELSE st.m_logFileName
             s1 == [st EXCEPT !.m_logFileName = name,
                              !.leaked = IF st.m_logFile.st = "open" THEN @ + 1 ELSE @]
         IN  [NewStream(s1, name) EXCEPT !.ret = TRUE]

(***************************************************************************)
(* The line buffer.                                                        *)
(***************************************************************************)
\* Logger::Flush
Flush(st, u) ==
    IF st.crashed THEN st
    ELSE IF st.m_logFile.st = "freed" THEN UseFreed(st, u) ELSE StreamFlush(st)

\* a Get that takes the newest line; C11 tells it from the one of the code
Get_Newest(st) ==
    [line |-> st.mBufferList[Len(st.mBufferList)],
     st |-> [st EXCEPT !.mBufferList = SubSeq(@, 1, Len(@) - 1)]]

\* Logger::Get, called on a buffer that is not empty: the oldest line, removed
Get(st) == [line |-> st.mBufferList[1], st |-> [st EXCEPT !.mBufferList = Tail(@)]]

\* the while loop of Logger::WriteToFile
RECURSIVE Drain(_, _)
Drain(st, u) ==
    IF st.crashed \/ Len(st.mBufferList) = 0 THEN st
    ELSE LET g == Get(st) IN Drain(writeLog(g.st, g.line, u), u)

\* Logger::WriteToFile
WriteToFile(st, u) == Flush(Drain(st, u), u)

(***************************************************************************)
(* The operations.  Each action is one call, run to its end.               *)
(***************************************************************************)
\* store what a handler left in its record, and what the call did
Commit(st, op, sev, text) ==
    /\ cwd' = st.cwd
    /\ disk' = st.disk
    /\ m_logFile' = st.m_logFile
    /\ leaked' = st.leaked
    /\ m_logFileName' = st.m_logFileName
    /\ mFileNameBase' = st.mFileNameBase
    /\ mLogFileList' = st.mLogFileList
    /\ mBufferList' = st.mBufferList
    /\ mUsingStdOut' = st.mUsingStdOut
    /\ crashed' = st.crashed
    /\ nwrites' = st.nwrites
    /\ ev' = [op |-> op, sev |-> sev, text |-> text, ret |-> st.ret, wrote |-> st.wrote,
              consoled |-> st.consoled, filed |-> st.filed, passes |-> st.passes, rotated |-> st.rotated,
              evicted |-> st.evicted, cerr |-> st.cerr, ub |-> st.ub]

\* what ev holds after a call that only stores a setting
Idle ==
    [op |-> "set", sev |-> 0, text |-> "", ret |-> TRUE, wrote |-> <<>>, consoled |-> <<>>,
     filed |-> <<>>,
     passes |-> 0, rotated |-> <<>>, evicted |-> <<>>, cerr |-> <<>>, ub |-> FALSE]

Init ==
    /\ now = 0
    /\ cwd = WorkDir
    /\ disk = Prior
    /\ alive = {}
    /\ made = 0
    /\ s_pInstance = 0
    /\ m_logFile = NullStream
    /\ leaked = 0
    /\ m_logFileName = ""
    /\ mFileNameBase = ""
    /\ m_leastSeverity = 0
    /\ mMaxFileSize = DEFAULT_MAX_FILE_SIZE
    /\ mMaxFileNumber = DEFAULT_MAX_FILE_NUMBER
    /\ mBuffering = FALSE
    /\ mLogFileList = <<>>
    /\ mBufferList = <<>>
    /\ mUsingStdOut = FALSE
    /\ crashed = FALSE
    /\ nwrites = 0
    /\ ev = Idle
    /\ pc = [t \in Threads |-> "idle"]
    /\ call = [t \in Threads |-> NoCall]
    /\ m_mutex = 0

\* the clock reaches the next second
Tick ==
    /\ ~crashed
    /\ now < MaxClock
    /\ now' = now + 1
    /\ UNCHANGED <<cwd, disk, alive, made, s_pInstance, m_logFile,
                   leaked, m_logFileName, mFileNameBase, m_leastSeverity, mMaxFileSize,
                   mMaxFileNumber, mBuffering, mLogFileList, mBufferList, mUsingStdOut,
                   crashed, nwrites, ev, pc, call, m_mutex>>

\* the lines the constructors write to std::cerr
ConsoleNotice(name, severity) ==
    "Logging at log level " \o severityToString(severity) \o " to " \o name \o "\n"

OpenNotice(name, severity) ==
    "Successfully opened output log file at log level " \o severityToString(severity)
    \o ", name = " \o name \o "\n"

OpenError(name) == "Error: unable to open output file: " \o name \o "\n"

\* Logger::Logger(Severity)
CtorConsole(severity, u) ==
    /\ ~crashed
    /\ made < MaxLoggers
    /\ nwrites < MaxWrites
    /\ made' = made + 1
    /\ alive' = alive \cup {made + 1}
    /\ s_pInstance' = made + 1
    /\ m_leastSeverity' = severity
    /\ mBuffering' = FALSE
    /\ LET s0 == [Cur EXCEPT !.m_logFileName = "<STDOUT>", !.mUsingStdOut = TRUE,
                             !.m_logFile = NullStream,
                             !.leaked = IF m_logFile.st = "open" THEN @ + 1 ELSE @]
           s1 == [s0 EXCEPT !.cerr = Append(@, ConsoleNotice(s0.m_logFileName, severity))]
           s2 == writeLog(s1, StartBanner(now, s1.m_logFileName, severity), u)
       IN  Commit(s2, "Logger", severity, "")
    /\ UNCHANGED <<now, mMaxFileSize, mMaxFileNumber>>

\* Logger::Logger(const std::string, Severity)
CtorFile(baseName, severity, rev, u) ==
    /\ ~crashed
    /\ made < MaxLoggers
    /\ nwrites < MaxWrites
    /\ made' = made + 1
    /\ alive' = alive \cup {made + 1}
    /\ s_pInstance' = made + 1
    /\ m_leastSeverity' = severity
    /\ mBuffering' = TRUE
    /\ LET s0 == [Cur EXCEPT !.mFileNameBase = baseName, !.mUsingStdOut = FALSE]
           s3 == Open(GenerateFileName(MakeFileList(s0, rev)))
           s4 == [EnforceLogFileLimits(s3, u) EXCEPT
                     !.cerr = Append(@, OpenNotice(s3.m_logFileName, severity))]
           s5 == writeLog(s4, StartBanner(now, s4.m_logFileName, severity), u)
           s6 == [s3 EXCEPT !.cerr = Append(@, OpenError(s3.m_logFileName))]
       IN  Commit(IF s3.ret THEN s5 ELSE s6, "Logger", severity, "")
    /\ UNCHANGED <<now, mMaxFileSize, mMaxFileNumber>>

\* a destructor that does not write out the buffer; C16 tells it from the one of
\* the code
Dtor_NoDrain(i, u) ==
    /\ ~crashed
    /\ i \in alive
    /\ alive' = alive \ {i}
    /\ s_pInstance' = 0
    /\ LET s1 == writeLog(Cur, FinishBanner(now), u)
           s2 == CASE s1.crashed -> s1
                  [] s1.m_logFile.st = "null" -> s1
                  [] s1.m_logFile.st = "freed" -> UseFreed(s1, u)
                  [] OTHER -> [StreamFlush(s1) EXCEPT !.m_logFile.st = "freed",
                                                      !.m_logFile.linked = FALSE]
       IN  Commit(IF s_pInstance # 0 THEN s2 ELSE Cur, "~Logger", 0, "")
    /\ UNCHANGED <<now, made, m_leastSeverity, mMaxFileSize, mMaxFileNumber,
                   mBuffering>>

\* Logger::~Logger
Dtor(i, u) ==
    /\ ~crashed
    /\ i \in alive
    /\ alive' = alive \ {i}
    /\ s_pInstance' = 0
    /\ LET s1 == WriteToFile(writeLog(Cur, FinishBanner(now), u), u)
           \* m_logFile->close(), if the pointer is not null, and delete m_logFile
           s2 == CASE s1.crashed -> s1
                  [] s1.m_logFile.st = "null" -> s1
                  [] s1.m_logFile.st = "freed" -> UseFreed(s1, u)
                  [] OTHER -> [StreamFlush(s1) EXCEPT !.m_logFile.st = "freed",
                                                      !.m_logFile.linked = FALSE]
       IN  Commit(IF s_pInstance # 0 THEN s2 ELSE Cur, "~Logger", 0, "")
    /\ UNCHANGED <<now, made, m_leastSeverity, mMaxFileSize, mMaxFileNumber,
                   mBuffering>>

\* a rejection that reports nothing; C3 tells it from the one of the code
RejectSeverity_Silent(st, s, u) == [st EXCEPT !.ret = FALSE]

\* the branch of setSeverity that rejects a level: report it, return false
RejectSeverity(st, s, u) == [writeLog(st, InvalidLine(now, s), u) EXCEPT !.ret = FALSE]

\* Logger::setSeverity
SetSeverity(s, u) ==
    /\ ~crashed
    /\ nwrites < MaxWrites
    /\ IF ~ValidSeverity(s)
       THEN /\ Commit(RejectSeverity(Cur, s, u), "setSeverity", s, "")
            /\ UNCHANGED m_leastSeverity
       ELSE /\ m_leastSeverity' = s
            /\ Commit([writeLog(Cur, SetLine(now, s), u) EXCEPT !.ret = TRUE],
                      "setSeverity", s, "")
    /\ UNCHANGED <<now, alive, made, s_pInstance, mMaxFileSize, mMaxFileNumber,
                   mBuffering>>

\* Logger::log, in its three forms: they differ in how the text is given
Log(s, input, u) ==
    /\ ~crashed
    /\ nwrites < MaxWrites
    /\ Commit(IF isDisplayed(s, m_leastSeverity)
              THEN writeLog(Cur, LogLine(now, s, input), u)
              ELSE Cur, "log", s, input)
    /\ UNCHANGED <<now, alive, made, s_pInstance, m_leastSeverity, mMaxFileSize,
                   mMaxFileNumber, mBuffering>>

\* a SetBuffering that switches the flag and leaves the buffer as it is; C12
\* tells it from the one of the code
SetBuffering_FlagOnly(on, u) ==
    /\ ~crashed
    /\ alive # {}
    /\ mBuffering' = on
    /\ Commit(Cur, "set", 0, "")
    /\ UNCHANGED <<now, alive, made, s_pInstance, m_leastSeverity, mMaxFileSize,
                   mMaxFileNumber>>

\* Logger::SetBuffering
SetBuffering(on, u) ==
    /\ ~crashed
    /\ alive # {}
    /\ mBuffering' = on
    /\ Commit(IF mBuffering /\ ~on THEN WriteToFile(Cur, u)
              ELSE IF ~mBuffering /\ on THEN [Cur EXCEPT !.mBufferList = <<>>]
              ELSE Cur, "set", 0, "")
    /\ UNCHANGED <<now, alive, made, s_pInstance, m_leastSeverity, mMaxFileSize,
                   mMaxFileNumber>>

\* Logger::WriteToFile, called by the application
CallWriteToFile(u) ==
    /\ ~crashed
    /\ alive # {}
    /\ Commit(WriteToFile(Cur, u), "set", 0, "")
    /\ UNCHANGED <<now, alive, made, s_pInstance, m_leastSeverity, mMaxFileSize,
                   mMaxFileNumber, mBuffering>>

\* Logger::Flush, called by the application
CallFlush(u) ==
    /\ ~crashed
    /\ Commit(Flush(Cur, u), "set", 0, "")
    /\ UNCHANGED <<now, alive, made, s_pInstance, m_leastSeverity, mMaxFileSize,
                   mMaxFileNumber, mBuffering>>

\* Logger::SetBaseName
SetBaseName(baseName, rev) ==
    /\ ~crashed
    /\ alive # {}
    /\ Commit(MakeFileList([Cur EXCEPT !.mFileNameBase = baseName], rev), "set", 0, "")
    /\ UNCHANGED <<now, alive, made, s_pInstance, m_leastSeverity, mMaxFileSize,
                   mMaxFileNumber, mBuffering>>

\* Logger::SetMaxFileSize
SetMaxFileSize(size) ==
    /\ ~crashed
    /\ alive # {}
    /\ mMaxFileSize' = size
    /\ Commit(Cur, "set", 0, "")
    /\ UNCHANGED <<now, alive, made, s_pInstance, m_leastSeverity, mMaxFileNumber,
                   mBuffering>>

\* Logger::SetMaxFileNumber
SetMaxFileNumber(size) ==
    /\ ~crashed
    /\ alive # {}
    /\ mMaxFileNumber' = size
    /\ Commit(Cur, "set", 0, "")
    /\ UNCHANGED <<now, alive, made, s_pInstance, m_leastSeverity, mMaxFileSize,
                   mBuffering>>

\* Logger::MirrorToStdOut
MirrorToStdOut ==
    /\ ~crashed
    /\ Commit([Cur EXCEPT !.mUsingStdOut = TRUE], "set", 0, "")
    /\ UNCHANGED <<now, alive, made, s_pInstance, m_leastSeverity, mMaxFileSize,
                   mMaxFileNumber, mBuffering>>

\* the calls an application can make, each with every input of the bounded sets
AnyCtorConsole ==
    /\ \E sev \in CtorSevs, u \in UBOutcomes : CtorConsole(sev, u)
    /\ UNCHANGED thr

AnyCtorFile ==
    /\ \E b \in BaseNames, sev \in CtorSevs, rev \in BOOLEAN, u \in UBOutcomes :
          CtorFile(b, sev, rev, u)
    /\ UNCHANGED thr

\* a destructor call within the budget of writes
AnyDtor ==
    /\ s_pInstance # 0 => nwrites < MaxWrites
    /\ \E i \in alive, u \in UBOutcomes : Dtor(i, u)
    /\ UNCHANGED thr

\* a destructor call at any time: the loggers are MaxLoggers at most, so these
\* calls need no budget
AnyLateDtor ==
    /\ \E i \in alive, u \in UBOutcomes : Dtor(i, u)
    /\ UNCHANGED thr

AnySetSeverity ==
    /\ \E s \in SetSevs, u \in UBOutcomes : SetSeverity(s, u)
    /\ UNCHANGED thr

AnyLog ==
    /\ \E s \in LogSevs, m \in Msgs, u \in UBOutcomes : Log(s, m, u)
    /\ UNCHANGED thr

AnySetBuffering ==
    /\ \E on \in BOOLEAN, u \in UBOutcomes : SetBuffering(on, u)
    /\ UNCHANGED thr

AnyWriteToFile ==
    /\ \E u \in UBOutcomes : CallWriteToFile(u)
    /\ UNCHANGED thr

AnyFlush ==
    /\ \E u \in UBOutcomes : CallFlush(u)
    /\ UNCHANGED thr

AnySetBaseName ==
    /\ \E b \in BaseNames, rev \in BOOLEAN : SetBaseName(b, rev)
    /\ UNCHANGED thr

\* SetBaseName, also with a directory that cannot be listed
AnyScan ==
    /\ \E b \in ScanNames, rev \in BOOLEAN : SetBaseName(b, rev)
    /\ UNCHANGED thr

AnySetMaxFileSize ==
    /\ \E n \in FileSizes : SetMaxFileSize(n)
    /\ UNCHANGED thr

AnySetMaxFileNumber ==
    /\ \E n \in FileNumbers : SetMaxFileNumber(n)
    /\ UNCHANGED thr

AnyMirrorToStdOut == MirrorToStdOut /\ UNCHANGED thr

Next ==
    \/ Tick
    \/ AnyCtorConsole
    \/ AnyCtorFile
    \/ AnyDtor
    \/ AnySetSeverity
    \/ AnyLog
    \/ AnySetBuffering
    \/ AnyWriteToFile
    \/ AnyFlush
    \/ AnySetBaseName
    \/ AnySetMaxFileSize
    \/ AnySetMaxFileNumber
    \/ AnyMirrorToStdOut

Spec == Init /\ [][Next]_vars

\* an application that logs and sets the threshold, to the console or to files
NextFilter ==
    \/ Tick
    \/ AnyCtorConsole
    \/ AnyCtorFile
    \/ AnyDtor
    \/ AnySetSeverity
    \/ AnyLog
    \/ AnyMirrorToStdOut

SpecFilter == Init /\ [][NextFilter]_vars

\* an application that constructs and destroys loggers in any order and logs
\* and flushes in between and afterwards
NextLifetime ==
    \/ Tick
    \/ AnyCtorConsole
    \/ AnyCtorFile
    \/ AnyLateDtor
    \/ AnyLog
    \/ AnyFlush

SpecLifetime == Init /\ [][NextLifetime]_vars

\* an application that moves its log files to other directories
NextScan ==
    \/ Tick
    \/ AnyCtorFile
    \/ AnyDtor
    \/ AnyLog
    \/ AnyScan

SpecScan == Init /\ [][NextScan]_vars

\* an application that logs to files and changes the rotation settings
NextRotation ==
    \/ Tick
    \/ AnyCtorFile
    \/ AnyDtor
    \/ AnyLog
    \/ AnySetBaseName
    \/ AnySetMaxFileSize
    \/ AnySetMaxFileNumber

SpecRotation == Init /\ [][NextRotation]_vars

\* an application that logs and switches buffering
NextBuffer ==
    \/ Tick
    \/ AnyCtorConsole
    \/ AnyCtorFile
    \/ AnyDtor
    \/ AnyLog
    \/ AnySetBuffering
    \/ AnyWriteToFile
    \/ AnyFlush

SpecBuffer == Init /\ [][NextBuffer]_vars

\* No code of the class appends to mBufferList (Logger::log writes through), so
\* the operations that drain the buffer are run on given contents: lines that
\* are in the buffer when the run starts.  The constructors do not touch the
\* buffer, so the lines are there when the first operation drains it.
BufferedLine(i) == "buffered line " \o ToString(i) \o "\n"

BufferedLines == {[i \in 1..n |-> BufferedLine(i)] : n \in 0..MaxBuffered}

InitDrain ==
    /\ now = 0
    /\ cwd = WorkDir
    /\ disk = Prior
    /\ alive = {}
    /\ made = 0
    /\ s_pInstance = 0
    /\ m_logFile = NullStream
    /\ leaked = 0
    /\ m_logFileName = ""
    /\ mFileNameBase = ""
    /\ m_leastSeverity = 0
    /\ mMaxFileSize = DEFAULT_MAX_FILE_SIZE
    /\ mMaxFileNumber = DEFAULT_MAX_FILE_NUMBER
    /\ mBuffering = FALSE
    /\ mLogFileList = <<>>
    /\ mBufferList \in BufferedLines
    /\ mUsingStdOut = FALSE
    /\ crashed = FALSE
    /\ nwrites = 0
    /\ ev = Idle
    /\ pc = [t \in Threads |-> "idle"]
    /\ call = [t \in Threads |-> NoCall]
    /\ m_mutex = 0

SpecDrain == InitDrain /\ [][NextBuffer]_vars

(***************************************************************************)
(* Threads.  Each thread makes one call and goes through it in steps: the  *)
(* call begins; if its code takes m_mutex it waits for it; it runs the     *)
(* write path (m_outString, writeLog, EnforceLogFileLimits) if the call    *)
(* has one; it returns, which releases the mutex if the thread owns it     *)
(* (the unique_lock is a local of the function).  The effect of a call on  *)
(* the logger and its files is that of the operations above, and takes     *)
(* place in the step that runs the write path or, for a call without one,  *)
(* in its only step.                                                       *)
(***************************************************************************)
ThreadCalls ==
    {[NoCall EXCEPT !.op = "log", !.sev = s, !.text = m] : s \in LogSevs, m \in Msgs}
    \cup {[NoCall EXCEPT !.op = "setSeverity", !.sev = s] : s \in SetSevs}
    \cup {[NoCall EXCEPT !.op = "~Logger"], [NoCall EXCEPT !.op = "WriteToFile"],
          [NoCall EXCEPT !.op = "MirrorToStdOut"]}
    \cup {[NoCall EXCEPT !.op = "SetBuffering", !.on = on] : on \in BOOLEAN}
    \cup {[NoCall EXCEPT !.op = "SetBaseName", !.text = b] : b \in BaseNames}
    \cup {[NoCall EXCEPT !.op = "SetMaxFileSize", !.size = n] : n \in FileSizes}
    \cup {[NoCall EXCEPT !.op = "SetMaxFileNumber", !.size = n] : n \in FileNumbers}

\* the functions that are not static: they are called on a Logger object
MemberOps == {"WriteToFile", "SetBuffering", "SetBaseName", "SetMaxFileSize", "SetMaxFileNumber"}

\* the calls that construct std::unique_lock<std::mutex>(m_mutex) first: log, and
\* setSeverity once the level has passed the range test
TakesMutex(c) == c.op = "log" \/ (c.op = "setSeverity" /\ ValidSeverity(c.sev))

\* the calls that run the write path: a log call whose line passes the filter,
\* setSeverity on both branches, the destructor of the current instance, and
\* WriteToFile or SetBuffering(false) when the buffer holds lines
RunsWritePath(c) ==
    \/ c.op = "log" /\ isDisplayed(c.sev, m_leastSeverity)
    \/ c.op = "setSeverity"
    \/ c.op = "~Logger" /\ s_pInstance # 0
    \/ c.op = "WriteToFile" /\ mBufferList # <<>>
    \/ c.op = "SetBuffering" /\ mBuffering /\ ~c.on /\ mBufferList # <<>>

\* the threads that are inside the write path
InWritePath == {t \in Threads : pc[t] = "path"}

\* the threads that are inside a call
InCall == {t \in Threads : pc[t] \in {"called", "path", "exit"}}

\* what the call does to the logger and its files
Effect(c, u, rev) ==
    \/ c.op = "log" /\ Log(c.sev, c.text, u)
    \/ c.op = "setSeverity" /\ SetSeverity(c.sev, u)
    \/ c.op = "~Logger" /\ \E i \in alive : Dtor(i, u)
    \/ c.op = "WriteToFile" /\ CallWriteToFile(u)
    \/ c.op = "SetBuffering" /\ SetBuffering(c.on, u)
    \/ c.op = "SetBaseName" /\ SetBaseName(c.text, rev)
    \/ c.op = "SetMaxFileSize" /\ SetMaxFileSize(c.size)
    \/ c.op = "SetMaxFileNumber" /\ SetMaxFileNumber(c.size)
    \/ c.op = "MirrorToStdOut" /\ MirrorToStdOut

\* Two threads that run the write path at the same time use m_outString and the
\* stream without synchronization: the process is ended, or the writes take
\* place one after the other.
RaceOutcomes(t) == IF InWritePath \ {t} # {} THEN {"crash", "done"} ELSE {"done"}

\* a thread calls the logger.  A member function is called on an object that
\* is alive and that no thread is destroying, and an object is destroyed by one
\* thread, when no thread is inside one of its member functions.
Begin(t, c) ==
    /\ ~crashed
    /\ pc[t] = "idle"
    /\ c.op \in {"log", "setSeverity", "~Logger"} =>
           nwrites + Cardinality({o \in InCall : call[o].op \in {"log", "setSeverity", "~Logger"}})
               < MaxWrites
    /\ c.op \in MemberOps =>
           alive # {} /\ \A o \in InCall : call[o].op # "~Logger"
    /\ c.op = "~Logger" =>
           alive # {} /\ \A o \in InCall : call[o].op \notin MemberOps \cup {"~Logger"}
    /\ pc' = [pc EXCEPT ![t] = "called"]
    /\ call' = [call EXCEPT ![t] = c]
    /\ UNCHANGED <<now, cwd, disk, alive, made, s_pInstance, m_logFile,
                   leaked, m_logFileName, mFileNameBase, m_leastSeverity, mMaxFileSize,
                   mMaxFileNumber, mBuffering, mLogFileList, mBufferList, mUsingStdOut,
                   crashed, nwrites, ev, m_mutex>>

\* std::unique_lock<std::mutex>(m_mutex): the thread gets the mutex when no
\* thread owns it; log then tests the severity and skips the write path if the
\* line is filtered
Acquire(t) ==
    /\ ~crashed
    /\ pc[t] = "called"
    /\ TakesMutex(call[t])
    /\ m_mutex = 0
    /\ m_mutex' = t
    /\ pc' = [pc EXCEPT ![t] = IF RunsWritePath(call[t]) THEN "path" ELSE "exit"]
    /\ UNCHANGED <<now, cwd, disk, alive, made, s_pInstance, m_logFile,
                   leaked, m_logFileName, mFileNameBase, m_leastSeverity, mMaxFileSize,
                   mMaxFileNumber, mBuffering, mLogFileList, mBufferList, mUsingStdOut,
                   crashed, nwrites, ev, call>>

\* a call whose code takes no mutex goes into the write path
Enter(t) ==
    /\ ~crashed
    /\ pc[t] = "called"
    /\ ~TakesMutex(call[t])
    /\ RunsWritePath(call[t])
    /\ pc' = [pc EXCEPT ![t] = "path"]
    /\ UNCHANGED <<now, cwd, disk, alive, made, s_pInstance, m_logFile,
                   leaked, m_logFileName, mFileNameBase, m_leastSeverity, mMaxFileSize,
                   mMaxFileNumber, mBuffering, mLogFileList, mBufferList, mUsingStdOut,
                   crashed, nwrites, ev, call, m_mutex>>

\* the thread runs the write path to its end
Write(t, r, u) ==
    /\ ~crashed
    /\ pc[t] = "path"
    /\ IF r = "crash"
       THEN /\ crashed' = TRUE
            /\ UNCHANGED <<now, cwd, disk, alive, made, s_pInstance, m_logFile,
                           leaked, m_logFileName, mFileNameBase, m_leastSeverity, mMaxFileSize,
                           mMaxFileNumber, mBuffering, mLogFileList, mBufferList, mUsingStdOut,
                           nwrites, ev, pc, call, m_mutex>>
       ELSE /\ Effect(call[t], u, FALSE)
            /\ pc' = [pc EXCEPT ![t] = "exit"]
            /\ UNCHANGED <<call, m_mutex>>

\* a call that has no write path does what it does, without a mutex
Plain(t, u, rev) ==
    /\ ~crashed
    /\ pc[t] = "called"
    /\ ~TakesMutex(call[t])
    /\ ~RunsWritePath(call[t])
    /\ Effect(call[t], u, rev)
    /\ pc' = [pc EXCEPT ![t] = "exit"]
    /\ UNCHANGED <<call, m_mutex>>

\* a return that leaves the mutex with the thread; C26 tells it from the one
\* of the code
Return_KeepLock(t) ==
    /\ ~crashed
    /\ pc[t] = "exit"
    /\ pc' = [pc EXCEPT ![t] = "done"]
    /\ UNCHANGED <<now, cwd, disk, alive, made, s_pInstance, m_logFile,
                   leaked, m_logFileName, mFileNameBase, m_leastSeverity, mMaxFileSize,
                   mMaxFileNumber, mBuffering, mLogFileList, mBufferList, mUsingStdOut,
                   crashed, nwrites, ev, call, m_mutex>>

\* the call returns; the unique_lock, if the call made one, releases the mutex
Return(t) ==
    /\ ~crashed
    /\ pc[t] = "exit"
    /\ pc' = [pc EXCEPT ![t] = "done"]
    /\ m_mutex' = IF m_mutex = t THEN 0 ELSE m_mutex
    /\ UNCHANGED <<now, cwd, disk, alive, made, s_pInstance, m_logFile,
                   leaked, m_logFileName, mFileNameBase, m_leastSeverity, mMaxFileSize,
                   mMaxFileNumber, mBuffering, mLogFileList, mBufferList, mUsingStdOut,
                   crashed, nwrites, ev, call>>

\* the logger is constructed before the threads start
NoThreadYet == \A t \in Threads : pc[t] = "idle"

StartCtorConsole == NoThreadYet /\ AnyCtorConsole

StartCtorFile == NoThreadYet /\ AnyCtorFile

AnyBegin == \E t \in Threads, c \in ThreadCalls : Begin(t, c)

AnyAcquire == \E t \in Threads : Acquire(t)

AnyEnter == \E t \in Threads : Enter(t)

AnyWrite == \E t \in Threads : \E r \in RaceOutcomes(t), u \in UBOutcomes : Write(t, r, u)

AnyPlain == \E t \in Threads, u \in UBOutcomes, rev \in BOOLEAN : Plain(t, u, rev)

AnyReturn == \E t \in Threads : Return(t)

NextThreads ==
    \/ Tick
    \/ StartCtorConsole
    \/ StartCtorFile
    \/ AnyBegin
    \/ AnyAcquire
    \/ AnyEnter
    \/ AnyWrite
    \/ AnyPlain
    \/ AnyReturn

SpecThreads == Init /\ [][NextThreads]_vars

\* threads that call log and setSeverity only, one call each, on a logger made
\* before they start or on none
LockCalls == {c \in ThreadCalls : c.op \in {"log", "setSeverity"}}

BeginLockCall == \E t \in Threads, c \in LockCalls : Begin(t, c)

NextProgress ==
    \/ Tick
    \/ StartCtorConsole
    \/ StartCtorFile
    \/ BeginLockCall
    \/ AnyAcquire
    \/ AnyEnter
    \/ AnyWrite
    \/ AnyReturn

\* the step that ends the write path of a thread, told by the thread's place
WritePathEnds(t) == ~crashed /\ pc[t] = "path" /\ pc' = [pc EXCEPT ![t] = "exit"]

\* the scheduler lets every thread that can take its next step take it at some
\* time, and the write path, which has no unbounded loop, comes to its end.
\* Every thread makes one call, so a thread that waits for the mutex finds it
\* free for good once the others have returned: weak fairness is enough.
ThreadFairness ==
    \A t \in Threads :
        /\ WF_vars(Acquire(t))
        /\ WF_vars(Enter(t))
        /\ WF_pc(WritePathEnds(t))
        /\ WF_vars(Return(t))

SpecProgress == Init /\ [][NextProgress]_vars /\ ThreadFairness


(***************************************************************************)
(* The properties.  ev tells which call the last step made; the clock      *)
(* leaves ev alone, so a step of a call is one that keeps the clock.       *)
(***************************************************************************)
Called(op) == now' = now /\ ev'.op = op

\* every variable of the logger and its files, without the record of the call
stateVars == <<cwd, disk, alive, made, s_pInstance, m_logFile, leaked, m_logFileName,
               mFileNameBase, m_leastSeverity, mMaxFileSize, mMaxFileNumber, mBuffering,
               mLogFileList, mBufferList, mUsingStdOut, crashed, nwrites>>

\* the call gave exactly this text to the write path, which put it on the console
\* if console output was on and into the file of the stream if one was open
Recorded(text) ==
    /\ ev'.wrote = <<text>>
    /\ mUsingStdOut => ev'.consoled = <<text>>
    /\ m_logFile.st = "open" => ev'.filed = <<[path |-> m_logFile.path, chunk |-> text]>>

NothingRecorded == ev'.wrote = <<>> /\ ev'.consoled = <<>> /\ ev'.filed = <<>>

\* C1: threshold filter.  A call log(s, m) made while the threshold is t records
\* the line of m if and only if s <= t: if s <= t the line is given to the write
\* path, which puts it on the console when console output is on and into the open
\* log file; if s > t nothing is recorded and no state of the logger changes.
C1_ThresholdFilter ==
    [][Called("log") =>
        IF ev'.sev <= m_leastSeverity
        THEN Recorded(LogLine(now, ev'.sev, ev'.text))
        ELSE NothingRecorded /\ UNCHANGED stateVars]_vars

\* a line logged at exactly the threshold went into the log file
C1_Witness ==
    /\ ev.op = "log"
    /\ ev.sev = m_leastSeverity
    /\ Len(ev.filed) = 1

\* C2: setSeverity(s) returns true and makes s the threshold exactly when
\* eLOG_CRIT <= s <= eLOG_LAST; for every other value it returns false and the
\* threshold keeps its value.
C2_SetSeverityRange ==
    [][Called("setSeverity") =>
        IF eLOG_CRIT <= ev'.sev /\ ev'.sev <= eLOG_LAST
        THEN ev'.ret /\ m_leastSeverity' = ev'.sev
        ELSE ~ev'.ret /\ m_leastSeverity' = m_leastSeverity]_vars

\* the lowest level was accepted and is the threshold
C2_Witness ==
    /\ ev.op = "setSeverity"
    /\ ev.sev = eLOG_CRIT
    /\ ev.ret
    /\ m_leastSeverity = eLOG_CRIT

\* C3: a rejected setSeverity call records one line describing the attempt,
\* whatever the threshold is, through the write path of ordinary lines (writeLog,
\* with its enforcement pass).
C3_RejectedIsReported ==
    [][Called("setSeverity") /\ ~ev'.ret =>
        /\ Recorded(InvalidLine(now, ev'.sev))
        /\ ~crashed' => ev'.passes = 1]_vars

\* a level above the range was rejected while the threshold was the default, and
\* the line went into the log file
C3_Witness ==
    /\ ev.op = "setSeverity"
    /\ ~ev.ret
    /\ ev.sev > eLOG_LAST
    /\ m_leastSeverity = eLOG_DEFAULT
    /\ Len(ev.filed) = 1

\* a call other than the constructor wrote through the write path
Wrote == now' = now /\ ev'.op \in {"log", "setSeverity"} /\ ev'.wrote # <<>>

NoDuplicates(list) == \A i, j \in 1..Len(list) : list[i] = list[j] => i = j

\* the last n elements of a list
LastOf(list, n) == IF Len(list) <= n THEN list ELSE SubSeq(list, Len(list) - n + 1, Len(list))

\* C4: rotation trigger.  Once the size of the active file is >= maxFileSize, the
\* next write causes a new file to be created and made active, and the tracked
\* list grows by exactly one entry.
C4_RotationTrigger ==
    [][Wrote /\ m_logFile.st = "open" /\ Size(Cur) >= mMaxFileSize =>
        /\ Len(ev'.rotated) = 1
        /\ ev'.rotated[1].created # {}
        /\ m_logFile'.st = "open"
        /\ m_logFile'.path \in ev'.rotated[1].created
        /\ Len(mLogFileList') = Len(mLogFileList) + 1]_vars

\* C5: retention bound.  After every enforcement pass the number of tracked log
\* files is <= maxFileNumber.
C5_RetentionBound == ev.passes > 0 => Len(mLogFileList) <= mMaxFileNumber

\* a pass removed two files at once to get down to the limit
C5_Witness ==
    /\ ev.passes > 0
    /\ Len(ev.evicted) >= 2
    /\ Len(mLogFileList) = mMaxFileNumber

\* C6: eviction order.  Each eviction step removes the element at index 0 of the
\* tracked list and leaves the order of the rest, and the file it removes is the
\* oldest of the tracked files (those that exist).
C6_EvictsOldest ==
    \A k \in 1..Len(ev.evicted) :
        LET e == ev.evicted[k]
        IN  /\ e.name = e.before[1]
            /\ (IF k < Len(ev.evicted) THEN ev.evicted[k + 1].before ELSE mLogFileList)
                   = Tail(e.before)
            /\ e.born[1] # NoFileSize =>
                   \A j \in 1..Len(e.born) : e.born[j] # NoFileSize => e.born[1] <= e.born[j]

\* C7: the tracked file list never holds the same name twice.
C7_NoDuplicateNames == NoDuplicates(mLogFileList)

\* C8: scenario A.  With maxFileSize = 100 and maxFileNumber = 2, a fresh base
\* name and an open log file, every write that finds the file at the limit
\* creates the next file and makes it active: the tracked list becomes the last
\* two of the old list and the new name, all different, and a file that left the
\* list is deleted from the disk.
C8_ScenarioA ==
    [][/\ Wrote
       /\ mMaxFileSize = 100 /\ mMaxFileNumber = 2
       /\ mFileNameBase = "log" /\ Len(mLogFileList) \in {1, 2}
       /\ m_logFile.st = "open" /\ Size(Cur) >= 100 - Len(ev'.wrote[1])
       => /\ Len(ev'.rotated) = 1
          /\ ev'.rotated[1].created # {}
          /\ mLogFileList' = LastOf(Append(mLogFileList, ev'.rotated[1].to), 2)
          /\ NoDuplicates(mLogFileList')
          /\ m_logFile'.st = "open"
          /\ m_logFile'.path = Resolve(cwd, mLogFileList'[Len(mLogFileList')])
          /\ Len(mLogFileList) = 2 =>
                /\ Resolve(cwd, mLogFileList[1]) \notin DOMAIN disk'
                /\ \A i \in 1..2 : Resolve(cwd, mLogFileList'[i]) \in DOMAIN disk']_vars

\* C9: while buffering is enabled, a log call that passes the filter appends its
\* line to the buffer and writes nothing to the log file.
C9_BufferedNotWritten ==
    [][Called("log") /\ mBuffering /\ ev'.sev <= m_leastSeverity =>
        /\ mBufferList' = Append(mBufferList, LogLine(now, ev'.sev, ev'.text))
        /\ ev'.filed = <<>>]_vars

\* C10: while buffering is disabled the buffer is empty, and a line that passes
\* the filter is in the file of the open stream, flushed, when the call returns.
C10_Unbuffered ==
    /\ [](~mBuffering => mBufferList = <<>>)
    /\ [][Called("log") /\ ~mBuffering /\ ev'.sev <= m_leastSeverity
              /\ m_logFile.st = "open" =>
            /\ ev'.filed = <<[path |-> m_logFile.path, chunk |-> LogLine(now, ev'.sev, ev'.text)]>>
            /\ m_logFile'.pending = <<>>
            /\ mBufferList' = <<>>]_vars

\* buffering was switched off and a line went straight into the log file
C10_Witness ==
    /\ ev.op = "log"
    /\ ~mBuffering
    /\ Len(ev.filed) = 1
    /\ m_logFile.st = "open"
    /\ mBufferList = <<>>

\* the texts of what a call put into files, in the order it did
Chunks(filed) == [i \in 1..Len(filed) |-> filed[i].chunk]

\* a step that is a call of WriteToFile
IsWriteToFile == \E u \in UBOutcomes : CallWriteToFile(u)

\* C11: buffer FIFO drain.  WriteToFile, called with the lines L1..Ln in the
\* buffer, gives exactly L1..Ln in that order, each once, to the log output (the
\* console when console output is on, the log file when one is open) and leaves
\* the buffer empty; and when lines were logged with buffering on and nothing
\* else is pending, the log call and the flush that follows it make the file
\* grow by exactly the logged line.
C11_FifoDrain ==
    [][IsWriteToFile /\ m_logFile.st # "freed" =>
        /\ ev'.wrote = mBufferList
        /\ mUsingStdOut => ev'.consoled = mBufferList
        /\ m_logFile.st = "open" => Chunks(ev'.filed) = mBufferList
        /\ mBufferList' = <<>>
        /\ (ev.op = "log" /\ ev.wrote # <<>> /\ mBuffering /\ m_logFile.st = "open"
               /\ mBufferList = <<>>)
           => Chunks(ev.filed) \o Chunks(ev'.filed) = ev.wrote]_vars

\* WriteToFile has put two buffered lines into the open log file, oldest first
C11_Witness ==
    /\ ev.op = "set"
    /\ Len(ev.filed) = 2
    /\ Chunks(ev.filed) = <<BufferedLine(1), BufferedLine(2)>>
    /\ mBufferList = <<>>
    /\ m_logFile.st = "open"

\* a step that is a call of SetBuffering(on)
IsSetBuffering(on) == \E u \in UBOutcomes : SetBuffering(on, u)

\* C12: SetBuffering transitions.  SetBuffering(false) while buffering is on
\* gives every buffered line, in order, to the log output and ends with the flag
\* off and the buffer empty; SetBuffering(true) while buffering is off ends with
\* the flag on and the buffer empty, and writes nothing; a call that does not
\* change the mode leaves the buffer as it was and writes nothing.
C12_SetBufferingTransitions ==
    [][\A on \in BOOLEAN : IsSetBuffering(on) /\ m_logFile.st # "freed" =>
        /\ mBuffering' = on
        /\ (mBuffering /\ ~on) =>
              /\ ev'.wrote = mBufferList
              /\ mUsingStdOut => ev'.consoled = mBufferList
              /\ m_logFile.st = "open" => Chunks(ev'.filed) = mBufferList
              /\ mBufferList' = <<>>
        /\ (~mBuffering /\ on) => (mBufferList' = <<>> /\ ev'.wrote = <<>>)
        /\ (mBuffering = on) => (mBufferList' = mBufferList /\ ev'.wrote = <<>>)]_vars

\* SetBuffering(false) has put two buffered lines into the open log file
C12_Witness ==
    /\ ev.op = "set"
    /\ ~mBuffering
    /\ Chunks(ev.filed) = <<BufferedLine(1), BufferedLine(2)>>
    /\ mBufferList = <<>>

\* the streams that are open: the one m_logFile points to, and those no pointer
\* refers to any more
OpenHandles == leaked + (IF m_logFile.st = "open" THEN 1 ELSE 0)

\* C13: at most one file handle is open for logging at any time, across
\* construction, rotation, construction of a second logger and shutdown; in
\* console-only mode none is open.
C13_OneHandle ==
    /\ OpenHandles <= 1
    /\ m_logFileName = "<STDOUT>" => OpenHandles = 0

\* C14: mutual exclusion of the write path.  With several threads calling log,
\* setSeverity, WriteToFile, SetBuffering and the destructor, at most one thread
\* at a time is inside the format-write-rotate path.
C14_WritePathExclusive == Cardinality(InWritePath) <= 1

\* the shared state of the logger that the calls change
sharedVars == <<m_leastSeverity, mBuffering, mBufferList, mLogFileList, mFileNameBase,
                mMaxFileSize, mMaxFileNumber, m_logFile, mUsingStdOut>>

\* C15: every mutation of the shared state (severity threshold, buffering flag,
\* line buffer, tracked file list, base name, maxFileSize, maxFileNumber, active
\* file handle, console flag) is made by a thread that owns the logger mutex,
\* including those of SetBuffering, SetBaseName, SetMaxFileSize,
\* SetMaxFileNumber and MirrorToStdOut.
C15_MutationsUnderMutex ==
    [][\A t \in Threads :
          (pc'[t] # pc[t] /\ sharedVars' # sharedVars) => m_mutex = t]_vars

\* C16: shutdown.  Destroying the logger (the current instance, whose stream has
\* not been released before) gives the FINISH marker and then every line still
\* in the buffer, in order, to the log output, then flushes and closes the
\* active file: afterwards the buffer is empty, nothing is left in the stream,
\* the stream is not open, and no log file is open at all unless an earlier
\* constructor left one open.
C16_Shutdown ==
    [][(Called("~Logger") /\ alive \ alive' = {s_pInstance} /\ m_logFile.st # "freed") =>
        /\ ev'.wrote = <<FinishBanner(now)>> \o mBufferList
        /\ mUsingStdOut => ev'.consoled = ev'.wrote
        /\ m_logFile.st = "open" => Chunks(ev'.filed) = ev'.wrote
        /\ mBufferList' = <<>>
        /\ m_logFile'.st # "open"
        /\ m_logFile'.pending = <<>>
        /\ s_pInstance' = 0
        /\ leaked' = leaked
        /\ leaked = 0 => OpenHandles' = 0]_vars

\* a file logger was destroyed with two lines in the buffer: the marker and the
\* two lines are in the file, and the file is closed
C16_Witness ==
    /\ ev.op = "~Logger"
    /\ Len(ev.filed) = 3
    /\ Chunks(ev.filed) = <<FinishBanner(now), BufferedLine(1), BufferedLine(2)>>
    /\ mBufferList = <<>>
    /\ m_logFile.st = "freed"
    /\ OpenHandles = 0

\* the logger constructed last among those still alive; 0 when there is none
Newest(S) == IF S = {} THEN 0 ELSE CHOOSE i \in S : \A j \in S : j <= i

\* C17: current instance.  getInstance (the value of s_pInstance) is the most
\* recently constructed logger that is still alive, and destroying a logger that
\* is not the current instance leaves the current instance and its stream as
\* they were.
C17_CurrentInstance ==
    [][/\ ~crashed' => s_pInstance' = Newest(alive')
       /\ (Called("~Logger") /\ s_pInstance # 0 /\ alive \ alive' # {s_pInstance}) =>
              /\ s_pInstance' = s_pInstance
              /\ m_logFile' = m_logFile]_vars

StartsWith(m, p) == Len(m) >= Len(p) /\ SubSeq(m, 1, Len(p)) = p

\* the lines the code writes to the error stream for other reasons
OtherReport(m) ==
    \/ StartsWith(m, "Logging at log level ")
    \/ StartsWith(m, "Successfully opened output log file")
    \/ StartsWith(m, "Error: unable to open output file: ")
    \/ m \in {ScanError, ScanDenied}

\* the evictions of the call whose unlink removed no file
FailedEvictions(evicted) == {k \in 1..Len(evicted) : evicted[k].unlinked = {}}

\* C18: best-effort eviction.  When the unlink of an evicted file fails, the
\* entry is removed from the tracked list all the same, the pass goes on until
\* the list has mMaxFileNumber entries at most, and the error stream gets a line
\* about the failure.
C18_BestEffortEviction ==
    [][\A k \in FailedEvictions(ev'.evicted) :
          /\ Len(ev'.evicted[k].before) > mMaxFileNumber
          /\ Len(mLogFileList') <= mMaxFileNumber
          /\ Len(mLogFileList') <= Len(ev'.evicted[k].before) - 1
          /\ \E j \in 1..Len(ev'.cerr) : ~OtherReport(ev'.cerr[j])]_vars

\* C19: open failure.  When the file-mode constructor could not open the active
\* file, it takes its error branch (the error message on the error stream, no
\* START banner, no enforcement pass), and a later log call on the unopened
\* stream neither rotates nor evicts.
C19_OpenFailure ==
    [][/\ (Called("Logger") /\ m_logFile'.st = "failed") =>
              /\ ev'.cerr # <<>>
              /\ ev'.cerr[Len(ev'.cerr)] = OpenError(m_logFileName')
              /\ ev'.wrote = <<>>
              /\ ev'.passes = 0
       /\ (Called("log") /\ m_logFile.st = "failed") =>
              /\ ev'.rotated = <<>>
              /\ ev'.evicted = <<>>]_vars

\* the call could not open the log directory
ScanFailed(cerr) == \E j \in 1..Len(cerr) : cerr[j] \in {ScanError, ScanDenied}

\* C20: scan failure.  When SetBaseName cannot read the log directory, it
\* (MakeFileList) returns false and the tracked list is empty: true is returned
\* only when the list was built.
C20_ScanFailure ==
    [][(Called("set") /\ ScanFailed(ev'.cerr)) =>
          /\ ~ev'.ret
          /\ mLogFileList' = <<>>]_vars

\* C21: the directory scan leaves the working directory of the process as it
\* was.  Only MakeFileList calls chdir, so no call of the logger changes it.
C21_WorkingDirKept == [][cwd' = cwd]_vars

\* what the scan of the file-mode constructor finds for the base name it is given
Scanned(baseName, rev) == MakeFileList([Cur EXCEPT !.mFileNameBase = baseName], rev).mLogFileList

\* C22: first run.  When the scan finds no earlier file, the file-mode
\* constructor tracks exactly one new name, opens it as the active file and does
\* not rotate; when the scan finds earlier files, the last one listed becomes the
\* active file, and no name is added unless that file has mMaxFileSize bytes or
\* more.
C22_FirstRun ==
    [][(Called("Logger") /\ ~mUsingStdOut') =>
          \E rev \in BOOLEAN :
              LET found == Scanned(mFileNameBase', rev)
                  last == found[Len(found)]
              IN  /\ found = <<>> =>
                        /\ Len(mLogFileList') = 1
                        /\ Resolve(cwd', m_logFileName') = Resolve(cwd', mLogFileList'[1])
                        /\ m_logFile'.st = "open"
                        /\ m_logFile'.path = Resolve(cwd', m_logFileName')
                        /\ ev'.rotated = <<>>
                  /\ (found # <<>> /\ disk[last].size < mMaxFileSize) =>
                        /\ ev'.rotated = <<>>
                        /\ m_logFileName' = last
                        /\ mLogFileList' = found]_vars

\* C23: eviction spares the active file.  With mMaxFileNumber >= 1, the file
\* that is open for writing when a call has returned was not unlinked by an
\* enforcement pass of that call: it still has its name.
C23_ActiveFileKept ==
    (mMaxFileNumber >= 1 /\ m_logFile.st = "open") =>
        /\ \A k \in 1..Len(ev.evicted) : m_logFile.path \notin ev.evicted[k].unlinked
        /\ m_logFile.linked

\* C24: in file mode the active file is the last element of the tracked list
\* (as a path: the list may hold the name relative to the working directory).
C24_ActiveIsLast ==
    m_logFile.st = "open" =>
        /\ mLogFileList # <<>>
        /\ Resolve(cwd, mLogFileList[Len(mLogFileList)]) = m_logFile.path

\* C25: no use after release.  No call uses (writes to, flushes, closes) or
\* releases again a stream object that a destructor has released: whenever a
\* call has returned, every use of m_logFile it made was on a live stream or was
\* skipped because the pointer was null.
C25_NoUseAfterRelease == ~ev.ub

\* C26: lock progress.  A thread that is about to acquire m_mutex does not own
\* it, a thread that has returned does not own it, the process is never ended
\* by a thread that owns the mutex while no other thread is in the write path,
\* and every call of log or setSeverity that has started returns at some time,
\* unless the process has been ended by threads that were in the write path
\* together, one of them without the mutex.
C26_LockProgress ==
    /\ [](\A t \in Threads : pc[t] \in {"idle", "called", "done"} => m_mutex # t)
    /\ [][crashed' /\ ~crashed => Cardinality(InWritePath) >= 2]_vars
    /\ \A t \in Threads : (pc[t] = "called") ~> (pc[t] = "done" \/ crashed)

\* a thread is about to return and owns the mutex while the other thread waits
\* for it
C26_Witness ==
    /\ pc[1] = "exit"
    /\ m_mutex = 1
    /\ pc[2] = "called"
    /\ TakesMutex(call[2])

====
